---- MODULE Spec2Model ----
(***************************************************************************)
(* Plan generation and normalisation pipeline of the planning server:      *)
(* POST /daily-tasks (server/routes/ai.ts) with its time normaliser and    *)
(* its credential-less fallback, and generateDailyPlan with                *)
(* generateSamplePlan (server/services/ai/generateDailyPlan.ts).           *)
(*                                                                         *)
(* JavaScript strings are sequences of one-character strings, so that      *)
(* formatting (toStr, pad) and the regular expression test are computed    *)
(* character by character.                                                 *)
(***************************************************************************)
EXTENDS Integers, Sequences, FiniteSets, TLC

VARIABLES profile, goals, hfKey, deepSeekKey, store, req, resp, writes, calls, callLog, content, loop

vars == <<profile, goals, hfKey, deepSeekKey, store, req, resp, writes, calls, callLog, content, loop>>

(***************************************************************************)
(* Bounds of the model                                                     *)
(***************************************************************************)
\* longest task list a backend answer carries
MaxTasks == 3
\* most stored long-term goals of the user
MaxGoals == 4
\* most stored goals when POST /daily-tasks runs without a credential
MaxTaskGoals == 3
\* most stored goals while a backend credential is configured
MaxPromptGoals == 1

(***************************************************************************)
(* Strings and JSON values                                                 *)
(***************************************************************************)
Digit == {"0", "1", "2", "3", "4", "5", "6", "7", "8", "9"}

DigitChar(d) == <<"0", "1", "2", "3", "4", "5", "6", "7", "8", "9">>[d + 1]

DigitVal(c) == CHOOSE d \in 0..9 : DigitChar(d) = c

\* `${n}` for a non-negative integer
RECURSIVE NumStr(_)
NumStr(n) == IF n < 10 THEN <<DigitChar(n)>> ELSE NumStr(n \div 10) \o <<DigitChar(n % 10)>>

\* JSON values a task's time field can hold
JUndefined == [kind |-> "undefined", val |-> <<>>]
JStr(s) == [kind |-> "string", val |-> s]
JNum(n) == [kind |-> "number", val |-> n]
\* an array holding one string
JArr(s) == [kind |-> "array", val |-> s]

\* JavaScript truthiness
Truthy(v) ==
  CASE v.kind = "undefined" -> FALSE
    [] v.kind = "string" -> v.val # <<>>
    [] v.kind = "number" -> v.val # 0
    [] OTHER -> TRUE

\* String(v)
String(v) ==
  CASE v.kind = "string" -> v.val
    [] v.kind = "number" -> NumStr(v.val)
    [] v.kind = "array" -> v.val
    [] OTHER -> <<"u", "n", "d", "e", "f", "i", "n", "e", "d">>

(***************************************************************************)
(* Time normalisation of POST /daily-tasks                                 *)
(***************************************************************************)
MinutesPerDay == 1440

GuardLimit == 1440

padNoZero(n) == NumStr(n)

pad(n) == IF n < 10 THEN <<"0">> \o NumStr(n) ELSE NumStr(n)

toStr(mins) == pad((mins \div 60) % 24) \o <<":">> \o pad(mins % 60)

\* /^\d{2}:\d{2}$/.test(s)
TimeRe(s) ==
  /\ Len(s) = 5
  /\ s[1] \in Digit
  /\ s[2] \in Digit
  /\ s[3] = ":"
  /\ s[4] \in Digit
  /\ s[5] \in Digit

\* a null entry of the list
NullTask == [rest |-> "null", time |-> JUndefined]

\* t?.time && String(t.time)
TimeOf(t) ==
  IF t = NullTask THEN JUndefined
  ELSE IF Truthy(t.time) THEN JStr(String(t.time)) ELSE t.time

\* !time || !/^\d{2}:\d{2}$/.test(time)
LacksTime(time) == ~Truthy(time) \/ ~TimeRe(time.val)

\* the forEach that records the times the list already provides
ProvidedTimes(rawList) ==
  { TimeOf(rawList[i]).val : i \in { j \in 1..Len(rawList) : ~LacksTime(TimeOf(rawList[j])) } }

StepOf(total) == IF total > 0 THEN MinutesPerDay \div total ELSE 0

\* the while loop: advance by one minute while the slot is used
RECURSIVE Probe(_, _, _)
Probe(candidate, guard, used) ==
  IF toStr(candidate) \in used /\ guard < GuardLimit
  THEN Probe((candidate + 1) % MinutesPerDay, guard + 1, used)
  ELSE candidate

\* no probing loop is running
NoLoop == [candidate |-> 0, guard |-> 0, used |-> {}, start |-> 0, reserved |-> {}, done |-> TRUE]

WithTimeOnly(t, time) == [rest |-> "none", time |-> JStr(time)]

\* { ...t, time }
WithTime(t, time) == [rest |-> IF t = NullTask THEN "none" ELSE t.rest, time |-> JStr(time)]

\* rawList.map((t, i) => ...), i counted from 0, with the used set carried along
RECURSIVE MapFrom(_, _, _, _)
MapFrom(rawList, i, step, used) ==
  IF i >= Len(rawList) THEN <<>>
  ELSE LET t == rawList[i + 1]
           time == TimeOf(t)
       IN IF LacksTime(time)
          THEN LET start == IF step > 0 THEN (i * step) % MinutesPerDay ELSE 0
                   assigned == toStr(Probe(start, 0, used))
               IN <<WithTime(t, assigned)>> \o MapFrom(rawList, i + 1, step, used \cup {assigned})
          ELSE <<WithTime(t, time.val)>> \o MapFrom(rawList, i + 1, step, used)

Normalize(rawList) == MapFrom(rawList, 0, StepOf(Len(rawList)), ProvidedTimes(rawList))

(***************************************************************************)
(* Stored data: profile, long-term goals, daily_plans rows                 *)
(***************************************************************************)
NoProfile == [present |-> FALSE, sports |-> <<>>, reading |-> <<>>]

PlainProfile == [present |-> TRUE, sports |-> <<"R", "u", "n">>, reading |-> <<" ">>]

YogaProfile == [present |-> TRUE, sports |-> <<"Y", "o", "g", "a", " ", "c", "l">>, reading |-> <<"n", "o", "v">>]

MixedCaseYogaProfile == [present |-> TRUE, sports |-> <<"a", " ", "y", "O", "G", "a">>, reading |-> <<>>]

ReaderProfile == [present |-> TRUE, sports |-> <<>>, reading |-> <<" ", "b", " ">>]

Profiles == {PlainProfile, YogaProfile, MixedCaseYogaProfile, ReaderProfile}

\* categories the model draws goals from
Categories == {"fitness", "learning", "career", "personal"}

Statuses == {"active", "paused"}

Priorities == {1, 2}

\* the goal stored at position k carries the title TitleOf(k)
TitleOf(k) == <<"T", DigitChar(k)>>

Goal(k, a) ==
  [id |-> k, title |-> TitleOf(k), category |-> a.category, priority |-> a.priority, status |-> a.status,
   progress |-> 0, createdAt |-> k]

\* DbStorage.getLongTermGoals: the user's rows ordered by priority, then createdAt
OrderedByPriority(gs) == \A i \in 1..(Len(gs) - 1) : gs[i].priority <= gs[i + 1].priority

\* the stored goals are a list of at most max goals with attributes from attrs
StoredGoals(gs, max, attrs) ==
  \E n \in 0..max : \E f \in [1..n -> attrs] :
    /\ OrderedByPriority(f)
    /\ gs = [k \in 1..n |-> Goal(k, f[k])]

\* attributes of the goals of the user of POST /daily-tasks
TaskGoalAttrs == [category : Categories, priority : Priorities, status : Statuses]

Days == {<<"2026-11-06">>}

TimeZone == "UTC"

NoRow == [present |-> FALSE, timezone |-> "", planJson |-> <<>>]

\* JSON.stringify / JSON.parse of a plan document
JSONstringify(v) == <<"json", v>>

JSONparse(text) == text[2]

\* a row an earlier request left for the date
EarlierRow == [present |-> TRUE, timezone |-> TimeZone, planJson |-> JSONstringify([daily_tasks |-> <<>>])]

\* DbStorage.getDailyPlan
getDailyPlan(st, date) == st[date]

\* DbStorage.upsertDailyPlan: update the row of (user, date) or insert it
upsertDailyPlan(st, plan) ==
  IF getDailyPlan(st, plan.date).present
  THEN [st EXCEPT ![plan.date] = [@ EXCEPT !.timezone = plan.timezone, !.planJson = plan.planJson]]
  ELSE [st EXCEPT ![plan.date] = [present |-> TRUE, timezone |-> plan.timezone, planJson |-> plan.planJson]]

ActiveGoalsUnfiltered(gs) == gs

\* longTermGoals.filter(goal => goal.status === 'active')
ActiveGoals(gs) == SelectSeq(gs, LAMBDA g : g.status = "active")

\* Array.prototype.slice(0, n)
Slice(s, n) == SubSeq(s, 1, IF Len(s) < n THEN Len(s) ELSE n)

(***************************************************************************)
(* POST /daily-tasks                                                       *)
(***************************************************************************)
T0700 == <<"0", "7", ":", "0", "0">>
T0800 == <<"0", "8", ":", "0", "0">>
T0900 == <<"0", "9", ":", "0", "0">>
T1000 == <<"1", "0", ":", "0", "0">>
T1800 == <<"1", "8", ":", "0", "0">>
T1900 == <<"1", "9", ":", "0", "0">>

GoalTaskGeneric(goal, index) ==
  [id |-> <<"goal-", index + 1>>, title |-> "Personal Goal Work", time |-> JStr(T1800), type |-> "work",
   completed |-> FALSE, description |-> <<"Work on: ", goal.title>>]

\* the task the fallback branch pushes for the goal at index (from 0)
GoalTask(goal, index) ==
  LET id == <<"goal-", index + 1>>
  IN CASE goal.category = "fitness" ->
            [id |-> id, title |-> "Goal-aligned Workout", time |-> JStr(T0700), type |-> "workout",
             completed |-> FALSE, description |-> <<"Work towards: ", goal.title>>]
       [] goal.category = "learning" ->
            [id |-> id, title |-> "Learning Session", time |-> JStr(T1900), type |-> "reading",
             completed |-> FALSE, description |-> <<"Study for: ", goal.title>>]
       [] goal.category = "career" ->
            [id |-> id, title |-> "Career Development", time |-> JStr(T0900), type |-> "work",
             completed |-> FALSE, description |-> <<"Progress on: ", goal.title>>]
       [] OTHER ->
            [id |-> id, title |-> "Personal Goal Work", time |-> JStr(T1800), type |-> "work",
             completed |-> FALSE, description |-> <<"Work on: ", goal.title>>]

goalBasedTasks(activeGoals) ==
  LET top == Slice(activeGoals, 2)
  IN [i \in 1..Len(top) |-> GoalTask(top[i], i - 1)]

defaultTasks ==
  << [id |-> <<"default-", 1>>, title |-> "Morning Routine", time |-> JStr(T0800), type |-> "meal",
      completed |-> FALSE, description |-> <<"Healthy breakfast and planning", "">>],
     [id |-> <<"default-", 2>>, title |-> "Focus Block", time |-> JStr(T1000), type |-> "work",
      completed |-> FALSE, description |-> <<"Deep work session", "">>] >>

FallbackTasks(activeGoals) == Slice(goalBasedTasks(activeGoals) \o defaultTasks, 5)

\* times a backend task may carry
TimeValues ==
  { JUndefined,
    JStr(<<>>),
    JStr(<<"7", ":", "5">>),
    JStr(<<"0", "0", ":", "0", "0">>),
    JStr(<<"0", "0", ":", "0", "1">>),
    JStr(<<"1", "2", ":", "0", "0">>),
    JStr(<<"2", "4", ":", "0", "0">>),
    JStr(<<"1", "2", ":", "6", "0">>),
    JNum(7),
    JArr(<<"0", "8", ":", "0", "0">>) }

Rests == {"r1"}

RawTasks == {NullTask} \cup { [rest |-> r, time |-> v] : r \in Rests, v \in TimeValues }

RECURSIVE RawListsOfLen(_)
RawListsOfLen(n) ==
  IF n = 0 THEN {<<>>}
  ELSE { Append(l, t) : l \in RawListsOfLen(n - 1), t \in RawTasks }

RawLists == UNION { RawListsOfLen(n) : n \in 0..MaxTasks }

\* what the call to the text-generation backend can produce
NoOutcome == [kind |-> "none", shape |-> "none", list |-> <<>>]

TaskOutcomes ==
  { [kind |-> k, shape |-> "none", list |-> <<>>] : k \in {"throw", "notok", "empty", "unparsable"} }
  \cup { [kind |-> "json", shape |-> s, list |-> <<>>] : s \in {"null", "nolist"} }
  \cup { [kind |-> "json", shape |-> "list", list |-> l] : l \in RawLists }

\* the handler, from the profile lookup to the response
DailyTasksResult(o, date) ==
  IF ~profile.present
  THEN [status |-> 400, body |-> [message |-> "Profile not found"], upsert |-> FALSE, called |-> FALSE]
  ELSE IF ~hfKey
  THEN [status |-> 200, body |-> [daily_tasks |-> FallbackTasks(ActiveGoals(goals))],
        upsert |-> FALSE, called |-> FALSE]
  ELSE IF o.kind = "throw"
  THEN [status |-> 500, body |-> [message |-> "Failed to generate tasks"], upsert |-> FALSE, called |-> TRUE]
  ELSE IF o.kind = "notok"
  THEN [status |-> 502, body |-> [message |-> "DeepSeek error"], upsert |-> FALSE, called |-> TRUE]
  ELSE IF o.kind = "empty"
  THEN [status |-> 502, body |-> [message |-> "Empty response from DeepSeek"], upsert |-> FALSE, called |-> TRUE]
  ELSE IF o.kind = "unparsable"
  THEN [status |-> 500, body |-> [message |-> "Failed to generate tasks"], upsert |-> FALSE, called |-> TRUE]
  ELSE LET rawList == IF o.shape = "list" THEN o.list ELSE <<>>
           normalizedList == Normalize(rawList)
       IN [status |-> 200,
           body |-> [daily_tasks |-> normalizedList, date |-> date, timezone |-> TimeZone],
           upsert |-> TRUE, called |-> TRUE]

\* the backend answers only a request that reaches the fetch
DailyTasks ==
  \E o \in (IF profile.present /\ hfKey THEN TaskOutcomes ELSE {NoOutcome}), date \in Days :
    LET r == DailyTasksResult(o, date)
    IN /\ req.op = "none"
       /\ req' = [op |-> "daily-tasks", outcome |-> IF r.called THEN o ELSE NoOutcome, date |-> date]
       /\ resp' = [status |-> r.status, body |-> r.body]
       /\ calls' = IF r.called THEN 1 ELSE 0
       /\ callLog' = IF r.called THEN <<"huggingface">> ELSE <<>>
       /\ writes' = IF r.upsert THEN 1 ELSE 0
       /\ store' = IF r.upsert
                   THEN upsertDailyPlan(store, [date |-> date, timezone |-> TimeZone,
                          planJson |-> JSONstringify([daily_tasks |-> r.body.daily_tasks])])
                   ELSE store
       /\ UNCHANGED <<loop, content, profile, goals, hfKey, deepSeekKey>>

NoRequest == [op |-> "none", outcome |-> NoOutcome, date |-> <<>>]

NoResponse == [status |-> 0, body |-> [message |-> ""]]

InitTasks ==
  /\ profile \in {PlainProfile, NoProfile}
  /\ hfKey \in BOOLEAN
  /\ deepSeekKey = FALSE
  /\ StoredGoals(goals, IF hfKey THEN MaxPromptGoals ELSE MaxTaskGoals, TaskGoalAttrs)
  /\ store \in [Days -> {NoRow, EarlierRow}]
  /\ req = NoRequest
  /\ resp = NoResponse
  /\ writes = 0
  /\ calls = 0
  /\ callLog = <<>>
  /\ loop = NoLoop
  /\ content = <<>>

NextTasks == DailyTasks

SpecTasks == InitTasks /\ [][NextTasks]_vars

(***************************************************************************)
(* Properties of POST /daily-tasks and of its time normaliser              *)
(***************************************************************************)
\* C1: on the daily-tasks endpoint a failing backend call (transport error,
\* non-success status, empty content, unparsable text) still ends with
\* HTTP 200 and the fallback task list.
C1_BackendFailureNotSurfaced ==
  (req.op = "daily-tasks" /\ req.outcome.kind \in {"throw", "notok", "empty", "unparsable"})
    => /\ resp.status = 200
       /\ resp.body = [daily_tasks |-> FallbackTasks(ActiveGoals(goals))]

\* C3: every daily-tasks invocation that returns a result performs exactly
\* one persistence write of that result under (user, date).
C3_OneWritePerResult ==
  (req.op = "daily-tasks" /\ resp.status = 200)
    => /\ writes = 1
       /\ store[req.date].present
       /\ JSONparse(store[req.date].planJson).daily_tasks = resp.body.daily_tasks

\* C4: whatever list the normaliser is given, every task of its output has
\* a time of the form two digits, colon, two digits.
C4_TimesWellFormed ==
  (req.op = "daily-tasks" /\ req.outcome.kind = "json" /\ resp.status = 200)
    => \A i \in 1..Len(resp.body.daily_tasks) :
         LET time == resp.body.daily_tasks[i].time
         IN /\ time.kind = "string"
            /\ Len(time.val) = 5
            /\ \A k \in {1, 2, 4, 5} : time.val[k] \in Digit
            /\ time.val[3] = ":"

\* C4 witness: a list with a null entry, a malformed time and a missing
\* time has been normalised.
C4_Witness ==
  /\ req.op = "daily-tasks" /\ req.outcome.kind = "json" /\ resp.status = 200
  /\ Len(req.outcome.list) = 3
  /\ req.outcome.list[1] = NullTask
  /\ req.outcome.list[2].time = JStr(<<"7", ":", "5">>)
  /\ req.outcome.list[3].time = JUndefined
  /\ req.outcome.list[3] # NullTask

\* C5: when the valid times (HH:MM, hour 00..23, minute 00..59) present in
\* the input are pairwise distinct, all output times are pairwise distinct.
C5_DistinctTimes ==
  (req.op = "daily-tasks" /\ req.outcome.kind = "json" /\ resp.status = 200)
    => LET in == req.outcome.list
           out == resp.body.daily_tasks
           valid(t) == /\ t.time.kind = "string"
                       /\ TimeRe(t.time.val)
                       /\ 10 * DigitVal(t.time.val[1]) + DigitVal(t.time.val[2]) <= 23
                       /\ 10 * DigitVal(t.time.val[4]) + DigitVal(t.time.val[5]) <= 59
       IN (\A i, j \in 1..Len(in) : (i # j /\ valid(in[i]) /\ valid(in[j])) => in[i].time # in[j].time)
            => (\A i, j \in 1..Len(out) : i # j => out[i].time # out[j].time)

\* C6: every output time of the normaliser denotes a real minute of the
\* day: a time shaped dd:dd but out of range is replaced.
C6_OutOfRangeReplaced ==
  (req.op = "daily-tasks" /\ req.outcome.kind = "json" /\ resp.status = 200)
    => \A i \in 1..Len(resp.body.daily_tasks) :
         LET s == resp.body.daily_tasks[i].time.val
         IN /\ 10 * DigitVal(s[1]) + DigitVal(s[2]) <= 23
            /\ 10 * DigitVal(s[4]) + DigitVal(s[5]) <= 59

\* C7: the normaliser keeps the length, the order and every field other
\* than time, and keeps a time that was already valid.
C7_OnlyTimesChange ==
  (req.op = "daily-tasks" /\ req.outcome.kind = "json" /\ req.outcome.shape = "list" /\ resp.status = 200)
    => LET in == req.outcome.list
           out == resp.body.daily_tasks
       IN /\ Len(out) = Len(in)
          /\ \A i \in 1..Len(in) :
               /\ in[i] # NullTask => out[i].rest = in[i].rest
               /\ in[i] = NullTask => out[i].rest = "none"
               /\ ( /\ in[i].time.kind = "string"
                    /\ TimeRe(in[i].time.val)
                    /\ 10 * DigitVal(in[i].time.val[1]) + DigitVal(in[i].time.val[2]) <= 23
                    /\ 10 * DigitVal(in[i].time.val[4]) + DigitVal(in[i].time.val[5]) <= 59 )
                  => out[i].time = in[i].time

\* C7 witness: a list mixing a valid time, a missing time and a null entry
\* has been normalised, and the missing time was filled in.
C7_Witness ==
  /\ req.op = "daily-tasks" /\ req.outcome.kind = "json" /\ resp.status = 200
  /\ Len(req.outcome.list) = 3
  /\ req.outcome.list[1].time = JStr(<<"1", "2", ":", "0", "0">>)
  /\ req.outcome.list[2].time = JUndefined /\ req.outcome.list[2] # NullTask
  /\ req.outcome.list[3] = NullTask
  /\ resp.body.daily_tasks[2].time = JStr(<<"0", "8", ":", "0", "0">>)

\* C8: in every task list the daily-tasks endpoint returns or persists no
\* two tasks share a time.
C8_NoSharedTime ==
  (req.op = "daily-tasks" /\ resp.status = 200)
    => \A i, j \in 1..Len(resp.body.daily_tasks) :
         i # j => resp.body.daily_tasks[i].time # resp.body.daily_tasks[j].time

\* C24: a task at index i that lacks a valid time gets the first minute of
\* the cyclic sequence c, c+1, ... (mod 1440), c = (i * floor(1440 / N)) mod
\* 1440, whose HH:MM string is not reserved at that moment; reserved are the
\* valid times of the whole input and the times assigned to earlier tasks.
\* When c is not reserved the task gets c.
C24_FirstFreeMinuteFromCandidate ==
  (req.op = "daily-tasks" /\ req.outcome.kind = "json" /\ req.outcome.shape = "list" /\ resp.status = 200)
    => LET in == req.outcome.list
           out == resp.body.daily_tasks
           N == Len(in)
           valid(t) == /\ t.time.kind = "string"
                       /\ TimeRe(t.time.val)
                       /\ 10 * DigitVal(t.time.val[1]) + DigitVal(t.time.val[2]) <= 23
                       /\ 10 * DigitVal(t.time.val[4]) + DigitVal(t.time.val[5]) <= 59
           reserved(i) == { in[j].time.val : j \in { k \in 1..N : valid(in[k]) } }
                            \cup { out[j].time.val : j \in { k \in 1..(i - 1) : ~valid(in[k]) } }
           c(i) == ((i - 1) * (1440 \div N)) % 1440
           free(i, k) == toStr((c(i) + k) % 1440) \notin reserved(i)
       IN \A i \in 1..N :
            ~valid(in[i]) =>
              \E k \in 0..N :
                /\ free(i, k)
                /\ \A l \in 0..(k - 1) : ~free(i, l)
                /\ out[i].time.val = toStr((c(i) + k) % 1440)

\* C14: the daily-tasks fallback synthesises goal tasks for the (up to) two
\* active goals of highest priority value among the user's active goals.
C14_TwoHighestPriorityGoals ==
  (req.op = "daily-tasks" /\ resp.status = 200 /\ ~hfKey)
    => LET a == SelectSeq(goals, LAMBDA g : g.status = "active")
           tasks == resp.body.daily_tasks
           chosen == { tasks[i].description[2] : i \in 1..(Len(tasks) - 2) }
       IN /\ Cardinality(chosen) = (IF Len(a) < 2 THEN Len(a) ELSE 2)
          /\ \A i, j \in 1..Len(a) :
               (a[i].title \in chosen /\ a[j].title \notin chosen) => a[i].priority >= a[j].priority

\* C15: without a credential the daily-tasks result is one task per
\* selected goal (the first two active goals as stored), in goal order and
\* determined by the category, followed by 'Morning Routine' (08:00) and
\* 'Focus Block' (10:00): 2 to 4 entries with pairwise distinct ids.
C15_FallbackTaskList ==
  (req.op = "daily-tasks" /\ resp.status = 200 /\ ~hfKey)
    => LET a == SelectSeq(goals, LAMBDA g : g.status = "active")
           n == IF Len(a) < 2 THEN Len(a) ELSE 2
           tasks == resp.body.daily_tasks
           hhmm(h1, h2) == [kind |-> "string", val |-> <<h1, h2, ":", "0", "0">>]
       IN /\ Len(tasks) = n + 2
          /\ Len(tasks) \in 2..4
          /\ \A i, j \in 1..Len(tasks) : i # j => tasks[i].id # tasks[j].id
          /\ \A i \in 1..n :
               /\ tasks[i].completed = FALSE
               /\ a[i].category = "fitness" =>
                    /\ tasks[i].title = "Goal-aligned Workout" /\ tasks[i].time = hhmm("0", "7")
                    /\ tasks[i].type = "workout" /\ tasks[i].description = <<"Work towards: ", a[i].title>>
               /\ a[i].category = "learning" =>
                    /\ tasks[i].title = "Learning Session" /\ tasks[i].time = hhmm("1", "9")
                    /\ tasks[i].type = "reading" /\ tasks[i].description = <<"Study for: ", a[i].title>>
               /\ a[i].category = "career" =>
                    /\ tasks[i].title = "Career Development" /\ tasks[i].time = hhmm("0", "9")
                    /\ tasks[i].type = "work" /\ tasks[i].description = <<"Progress on: ", a[i].title>>
               /\ a[i].category \notin {"fitness", "learning", "career"} =>
                    /\ tasks[i].title = "Personal Goal Work" /\ tasks[i].time = hhmm("1", "8")
                    /\ tasks[i].type = "work" /\ tasks[i].description = <<"Work on: ", a[i].title>>
          /\ tasks[n + 1].title = "Morning Routine" /\ tasks[n + 1].time = hhmm("0", "8")
          /\ tasks[n + 2].title = "Focus Block" /\ tasks[n + 2].time = hhmm("1", "0")

\* C15 witness: a paused goal is stored first, then an active learning
\* goal and an active career goal; the list has four entries.
C15_Witness ==
  /\ req.op = "daily-tasks" /\ resp.status = 200 /\ ~hfKey
  /\ Len(goals) = 3
  /\ goals[1].status = "paused"
  /\ goals[2].status = "active" /\ goals[2].category = "learning"
  /\ goals[3].status = "active" /\ goals[3].category = "career"
  /\ Len(resp.body.daily_tasks) = 4
  /\ resp.body.daily_tasks[1].description = <<"Study for: ", goals[2].title>>

(***************************************************************************)
(* generateSamplePlan: the deterministic daily plan                        *)
(***************************************************************************)
Item(start, end, title, type, priority, notes) ==
  [start |-> start, end |-> end, title |-> title, type |-> type, priority |-> priority, notes |-> notes]

\* an item without notes
NoNotes == <<>>

baseItems ==
  << Item("07:00", "07:30", "Morning routine", "other", "medium", NoNotes),
     Item("07:30", "08:00", "Breakfast", "meal", "high", NoNotes),
     Item("08:00", "12:00", "Work/Study time", "work", "high", NoNotes),
     Item("12:00", "13:00", "Lunch break", "meal", "high", NoNotes),
     Item("13:00", "17:00", "Work/Study time", "work", "high", NoNotes),
     Item("17:00", "18:00", "Exercise", "exercise", "medium", NoNotes),
     Item("18:00", "19:00", "Personal time", "break", "low", NoNotes),
     Item("19:00", "20:00", "Dinner", "meal", "high", NoNotes),
     Item("20:00", "21:00", "Reading/Hobbies", "reading", "low", NoNotes),
     Item("21:00", "22:00", "Wind down", "break", "low", NoNotes),
     Item("22:00", "07:00", "Sleep", "sleep", "high", NoNotes) >>

\* one step of the stable sort: g goes behind every goal the comparator
\* b.priority - a.priority does not put after it
RECURSIVE InsertByPriority(_, _)
InsertByPriority(sorted, g) ==
  IF sorted = <<>> THEN <<g>>
  ELSE IF Head(sorted).priority - g.priority >= 0
       THEN <<Head(sorted)>> \o InsertByPriority(Tail(sorted), g)
       ELSE <<g>> \o sorted

RECURSIVE SortFrom(_, _, _)
SortFrom(gs, i, sorted) ==
  IF i > Len(gs) THEN sorted ELSE SortFrom(gs, i + 1, InsertByPriority(sorted, gs[i]))

sortedAsStored(activeGoals) == activeGoals

\* activeGoals.sort((a, b) => b.priority - a.priority)
sortedGoals(activeGoals) == SortFrom(activeGoals, 1, <<>>)

SubstituteDinner(items, goal, index) ==
  IF goal.category = "personal" /\ index < 3
  THEN [items EXCEPT ![7 + 1] = Item("18:00", "19:00", "Personal Goal Time", "other", "medium",
                                     <<"Work on: ", goal.title>>)]
  ELSE items

\* the body of the forEach: index counts from 0, slots of baseItems from 0
Substitute(items, goal, index) ==
  IF goal.category = "fitness" /\ index < 1
  THEN [items EXCEPT ![5 + 1] = Item("17:00", "18:00", "Goal-focused Exercise", "exercise", "high",
                                     <<"Working toward: ", goal.title>>)]
  ELSE IF goal.category = "learning" /\ index < 2
  THEN [items EXCEPT ![8 + 1] = Item("20:00", "21:00", "Learning Session", "reading", "high",
                                     <<"Study for: ", goal.title>>)]
  ELSE IF goal.category = "career" /\ index < 2
  THEN [items EXCEPT ![2 + 1] = Item("08:00", "12:00", "Career Development Work", "work", "high",
                                     <<"Progress on: ", goal.title>>)]
  ELSE IF goal.category = "personal" /\ index < 3
  THEN [items EXCEPT ![6 + 1] = Item("18:00", "19:00", "Personal Goal Time", "other", "medium",
                                     <<"Work on: ", goal.title>>)]
  ELSE IF goal.category = "financial" /\ index < 3
  THEN [items EXCEPT ![4 + 1] = Item("13:00", "17:00", "Financial Planning Work", "work", "high",
                                     <<"Progress on: ", goal.title>>)]
  ELSE items

\* sortedGoals.slice(0, 3).forEach((goal, index) => ...)
RECURSIVE ForEachGoal(_, _, _)
ForEachGoal(items, top, index) ==
  IF index >= Len(top) THEN items
  ELSE ForEachGoal(Substitute(items, top[index + 1], index), top, index + 1)

UpperCase == <<"A", "B", "C", "D", "E", "F", "G", "H", "I", "J", "K", "L", "M",
               "N", "O", "P", "Q", "R", "S", "T", "U", "V", "W", "X", "Y", "Z">>

LowerCase == <<"a", "b", "c", "d", "e", "f", "g", "h", "i", "j", "k", "l", "m",
               "n", "o", "p", "q", "r", "s", "t", "u", "v", "w", "x", "y", "z">>

toLowerCaseSame(s) == s

\* String.prototype.toLowerCase
toLowerCase(s) ==
  [i \in 1..Len(s) |->
     IF \E k \in 1..26 : UpperCase[k] = s[i]
     THEN LowerCase[CHOOSE k \in 1..26 : UpperCase[k] = s[i]]
     ELSE s[i]]

\* String.prototype.includes
includes(s, sub) == \E i \in 1..(Len(s) - Len(sub) + 1) : SubSeq(s, i, i + Len(sub) - 1) = sub

\* String.prototype.trim
RECURSIVE trim(_)
trim(s) ==
  IF s = <<>> THEN s
  ELSE IF Head(s) = " " THEN trim(Tail(s))
  ELSE IF s[Len(s)] = " " THEN trim(SubSeq(s, 1, Len(s) - 1))
  ELSE s

\* the else branch: customisation from the profile
ProfileItems(items, prof) ==
  LET yoga == IF prof.sports # <<>> /\ includes(toLowerCase(prof.sports), <<"y", "o", "g", "a">>)
              THEN [items EXCEPT ![5 + 1] = Item("17:00", "18:00", "Yoga session", "exercise", "medium", NoNotes)]
              ELSE items
  IN IF prof.reading # <<>> /\ trim(prof.reading) # <<>>
     THEN [yoga EXCEPT ![8 + 1] = Item("20:00", "21:00", "Reading time", "reading", "medium", NoNotes)]
     ELSE yoga

generateSamplePlanTopTwo(date, timezone, prof, activeGoals) ==
  [date |-> date,
   timezone |-> timezone,
   items |-> IF Len(activeGoals) > 0
             THEN ForEachGoal(baseItems, Slice(sortedGoals(activeGoals), 2), 0)
             ELSE ProfileItems(baseItems, prof)]

generateSamplePlan(date, timezone, prof, activeGoals) ==
  [date |-> date,
   timezone |-> timezone,
   items |-> IF Len(activeGoals) > 0
             THEN ForEachGoal(baseItems, Slice(sortedGoals(activeGoals), 3), 0)
             ELSE ProfileItems(baseItems, prof)]

(***************************************************************************)
(* generateDailyPlan                                                       *)
(***************************************************************************)
\* categories of the goals of the user of generateDailyPlan
PlanCategories == {"fitness", "learning", "career", "personal", "financial", "health"}

\* attributes of the goals of that user: goals that are not active differ
\* in priority only, the filter drops them before any other field is read
PlanGoalAttrs ==
  [category : PlanCategories, priority : Priorities, status : {"active"}]
  \cup [category : {"fitness"}, priority : Priorities, status : {"paused"}]

\* JSON documents the backend may answer with
NoDocument == [isNull |-> TRUE, date |-> "", timezone |-> "", isArray |-> FALSE, items |-> <<>>]

ItemLists ==
  { <<>>,
    << Item("09:00", "10:00", "Deep work", "work", "high", NoNotes) >>,
    << Item("09:00", "10:00", "Power nap", "nap", "high", NoNotes) >> }

PlanDocuments ==
  {NoDocument}
  \cup { [isNull |-> FALSE, date |-> d, timezone |-> z, isArray |-> FALSE, items |-> <<>>] :
           d \in {"", "2026-11-06", "2000-01-01"}, z \in {"", TimeZone} }
  \cup { [isNull |-> FALSE, date |-> d, timezone |-> z, isArray |-> TRUE, items |-> l] :
           d \in {"", "2026-11-06", "2000-01-01"}, z \in {"", TimeZone}, l \in ItemLists }

PlanOutcomes ==
  { [kind |-> k, doc |-> NoDocument] : k \in {"throw", "nocontent", "unparsable"} }
  \cup { [kind |-> "json", doc |-> d] : d \in PlanDocuments }

NoPlanOutcome == [kind |-> "none", doc |-> NoDocument]

validStructureNoTimezone(plan) == ~plan.isNull /\ plan.date # "" /\ plan.isArray

\* !(!plan.date || !plan.timezone || !Array.isArray(plan.items)); reading a
\* field of null throws
validStructure(plan) == ~plan.isNull /\ plan.date # "" /\ plan.timezone # "" /\ plan.isArray

\* the function, from the credential test to the returned plan
generateDailyPlan(o, prof, date, timezone) ==
  LET activeGoals == ActiveGoals(goals)
  IN IF ~deepSeekKey THEN generateSamplePlan(date, timezone, prof, activeGoals)
     ELSE IF o.kind \in {"throw", "nocontent", "unparsable"}
          THEN generateSamplePlan(date, timezone, prof, activeGoals)
          ELSE IF ~validStructure(o.doc)
               THEN generateSamplePlan(date, timezone, prof, activeGoals)
               ELSE [date |-> o.doc.date, timezone |-> o.doc.timezone, items |-> o.doc.items]

\* the backend answers only a call that is made
GenerateDailyPlan ==
  \E o \in (IF deepSeekKey THEN PlanOutcomes ELSE {NoPlanOutcome}), date \in Days :
    /\ req.op = "none"
    /\ req' = [op |-> "generateDailyPlan", outcome |-> o, date |-> date]
    /\ resp' = [status |-> 0, body |-> generateDailyPlan(o, profile, date, TimeZone)]
    /\ calls' = IF deepSeekKey THEN 1 ELSE 0
    /\ callLog' = IF deepSeekKey THEN <<"deepseek">> ELSE <<>>
    /\ UNCHANGED <<loop, content, profile, goals, hfKey, deepSeekKey, store, writes>>

InitPlan ==
  /\ profile \in Profiles
  /\ hfKey = FALSE
  /\ deepSeekKey \in BOOLEAN
  /\ StoredGoals(goals, IF deepSeekKey THEN MaxPromptGoals ELSE MaxGoals, PlanGoalAttrs)
  /\ store = [d \in Days |-> NoRow]
  /\ req = NoRequest
  /\ resp = NoResponse
  /\ writes = 0
  /\ calls = 0
  /\ callLog = <<>>
  /\ loop = NoLoop
  /\ content = <<>>

NextPlan == GenerateDailyPlan

SpecPlan == InitPlan /\ [][NextPlan]_vars

(***************************************************************************)
(* Properties of generateDailyPlan and of the deterministic plan           *)
(***************************************************************************)
\* C2: generateDailyPlan returns a plan for every backend outcome: without
\* a credential no call is made, and when the call throws, has no content,
\* has unparsable text or JSON lacking date, timezone or an items array,
\* the result is the deterministic plan for the requested date, timezone,
\* profile and active goals.
C2_FallbackOnEveryFailure ==
  req.op = "generateDailyPlan"
    => LET o == req.outcome
           failed == \/ o.kind \in {"throw", "nocontent", "unparsable"}
                     \/ o.kind = "json" /\ (o.doc.isNull \/ o.doc.date = "" \/ o.doc.timezone = "" \/ ~o.doc.isArray)
       IN /\ ~deepSeekKey => calls = 0
          /\ (~deepSeekKey \/ failed)
               => /\ resp.body = generateSamplePlan(req.date, TimeZone, profile, ActiveGoals(goals))
                  /\ resp.body.date = req.date
                  /\ resp.body.timezone = TimeZone
                  /\ Len(resp.body.items) = 11

\* C2 witness: with a credential, the backend answered JSON with date and
\* items but no timezone, and the caller got the deterministic plan.
C2_Witness ==
  /\ req.op = "generateDailyPlan" /\ deepSeekKey /\ calls = 1
  /\ req.outcome.kind = "json" /\ ~req.outcome.doc.isNull
  /\ req.outcome.doc.date = "2000-01-01" /\ req.outcome.doc.timezone = "" /\ req.outcome.doc.isArray
  /\ Len(ActiveGoals(goals)) = 1
  /\ resp.body.date = req.date /\ Len(resp.body.items) = 11

C10_OnlyTopThreeActive ==
  (req.op = "generateDailyPlan" /\ ~deepSeekKey)
    => LET act(gs) == SelectSeq(gs, LAMBDA g : g.status = "active")
           a == act(goals)
           pos(k) == Len(act(SubSeq(goals, 1, k)))
           rank(i) == 1 + Cardinality({ j \in 1..Len(a) : a[j].priority > a[i].priority })
                        + Cardinality({ j \in 1..(i - 1) : a[j].priority = a[i].priority })
           without(k) == SubSeq(goals, 1, k - 1) \o SubSeq(goals, k + 1, Len(goals))
       IN \A k \in 1..Len(goals) :
            (goals[k].status # "active" \/ rank(pos(k)) >= 4)
              => resp.body = generateSamplePlan(req.date, TimeZone, profile, act(without(k)))

\* C10 witness: four active goals of one priority, the fourth a personal
\* goal, and the personal slot of the plan is the template's.
C10_Witness ==
  /\ req.op = "generateDailyPlan" /\ ~deepSeekKey
  /\ Len(goals) = 4
  /\ \A k \in 1..4 : goals[k].status = "active" /\ goals[k].priority = 1
  /\ \A k \in 1..3 : goals[k].category = "learning"
  /\ goals[4].category = "personal"
  /\ resp.body.items[7].title = "Personal time"
  /\ resp.body.items[9].title = "Learning Session"

\* C11: in the deterministic plan, when several of the top three goals
\* share a category the substitution is applied for one of them only: no
\* template slot is overwritten by more than one goal.
C11_OneWritePerSlot ==
  (req.op = "generateDailyPlan" /\ ~deepSeekKey)
    => LET top == Slice(sortedGoals(ActiveGoals(goals)), 3)
           after(k) == ForEachGoal(baseItems, SubSeq(top, 1, k), 0)
       IN \A slot \in 1..11 :
            Cardinality({ k \in 1..Len(top) : after(k)[slot] # after(k - 1)[slot] }) <= 1

\* C12: the deterministic plan has exactly 11 items with the start and end
\* times of the template, each item starting when the previous one ends,
\* from 07:00 to 07:00; breakfast, lunch, dinner and sleep are never
\* substituted and keep priority high.
C12_ElevenTemplateSlots ==
  (req.op = "generateDailyPlan" /\ ~deepSeekKey)
    => LET items == resp.body.items
           starts == <<"07:00", "07:30", "08:00", "12:00", "13:00", "17:00",
                       "18:00", "19:00", "20:00", "21:00", "22:00">>
           meals == <<"", "Breakfast", "", "Lunch break", "", "", "", "Dinner", "", "", "Sleep">>
       IN /\ Len(items) = 11
          /\ \A i \in 1..11 : items[i].start = starts[i]
          /\ \A i \in 1..10 : items[i].end = starts[i + 1]
          /\ items[11].end = "07:00"
          /\ \A i \in {2, 4, 8, 11} :
               /\ items[i].title = meals[i]
               /\ items[i].priority = "high"
               /\ items[i].type = (IF i = 11 THEN "sleep" ELSE "meal")
               /\ items[i].notes = NoNotes

\* C12 witness: three active goals (fitness first, career, personal) have
\* each substituted their slot.
C12_Witness ==
  /\ req.op = "generateDailyPlan" /\ ~deepSeekKey
  /\ Len(resp.body.items) = 11
  /\ resp.body.items[6].title = "Goal-focused Exercise"
  /\ resp.body.items[3].title = "Career Development Work"
  /\ resp.body.items[7].title = "Personal Goal Time"

\* C13: the 17:00-18:00 slot is 'Yoga session' (exercise, medium) exactly
\* when there is no active goal and sports contains 'yoga' in any case, and
\* the 20:00-21:00 slot is 'Reading time' exactly when there is no active
\* goal and reading is not blank.
C13_ProfileOnlyWithoutGoals ==
  (req.op = "generateDailyPlan" /\ ~deepSeekKey)
    => LET items == resp.body.items
           noActive == \A k \in 1..Len(goals) : goals[k].status # "active"
           sp == profile.sports
           hasYoga == \E i \in 1..(Len(sp) - 3) :
                        /\ sp[i] \in {"y", "Y"} /\ sp[i + 1] \in {"o", "O"}
                        /\ sp[i + 2] \in {"g", "G"} /\ sp[i + 3] \in {"a", "A"}
           hasReading == \E i \in 1..Len(profile.reading) : profile.reading[i] # " "
       IN /\ (items[6].title = "Yoga session") <=> (noActive /\ hasYoga)
          /\ items[6].title = "Yoga session" => (items[6].type = "exercise" /\ items[6].priority = "medium")
          /\ (items[9].title = "Reading time") <=> (noActive /\ hasReading)

\* C13 witness: only a paused goal is stored, sports spells yoga in mixed
\* case, reading is empty: the yoga slot is set and the reading slot is not.
C13_Witness ==
  /\ req.op = "generateDailyPlan" /\ ~deepSeekKey
  /\ Len(goals) = 1 /\ goals[1].status = "paused"
  /\ profile = MixedCaseYogaProfile
  /\ resp.body.items[6].title = "Yoga session"
  /\ resp.body.items[9].title = "Reading/Hobbies"

\* C16: every plan generateDailyPlan returns contains only items whose type
\* is one of work, study, exercise, meal, reading, break, sleep, other.
C16_ItemTypesEnumerated ==
  req.op = "generateDailyPlan"
    => \A i \in 1..Len(resp.body.items) :
         resp.body.items[i].type \in {"work", "study", "exercise", "meal", "reading", "break", "sleep", "other"}

\* C26: in the deterministic plan the goal at rank i (from 0, among the
\* active goals by descending priority, equal priorities in supplied order,
\* ranks 0 to 2 only) substitutes the slot of its category exactly when i is
\* below the cap of the category: fitness 1 (17:00-18:00), learning 2
\* (20:00-21:00), career 2 (08:00-12:00), personal 3 (18:00-19:00),
\* financial 3 (13:00-17:00); a goal of another category substitutes
\* nothing.  A slot shows the last goal that substituted it.
C26_CategoryCaps ==
  (req.op = "generateDailyPlan" /\ ~deepSeekKey /\ \E i \in 1..Len(goals) : goals[i].status = "active")
    => LET a == SelectSeq(goals, LAMBDA g : g.status = "active")
           rank(i) == Cardinality({ j \in 1..Len(a) : a[j].priority > a[i].priority })
                        + Cardinality({ j \in 1..(i - 1) : a[j].priority = a[i].priority })
           rule == [fitness   |-> [cap |-> 1, slot |-> 6, start |-> "17:00", end |-> "18:00",
                                   title |-> "Goal-focused Exercise", was |-> "Exercise", notes |-> "Working toward: "],
                    learning  |-> [cap |-> 2, slot |-> 9, start |-> "20:00", end |-> "21:00",
                                   title |-> "Learning Session", was |-> "Reading/Hobbies", notes |-> "Study for: "],
                    career    |-> [cap |-> 2, slot |-> 3, start |-> "08:00", end |-> "12:00",
                                   title |-> "Career Development Work", was |-> "Work/Study time", notes |-> "Progress on: "],
                    personal  |-> [cap |-> 3, slot |-> 7, start |-> "18:00", end |-> "19:00",
                                   title |-> "Personal Goal Time", was |-> "Personal time", notes |-> "Work on: "],
                    financial |-> [cap |-> 3, slot |-> 5, start |-> "13:00", end |-> "17:00",
                                   title |-> "Financial Planning Work", was |-> "Work/Study time", notes |-> "Progress on: "]]
           subst(c) == { i \in 1..Len(a) : a[i].category = c /\ rank(i) <= 2 /\ rank(i) < rule[c].cap }
           items == resp.body.items
       IN /\ \A c \in DOMAIN rule :
               LET it == items[rule[c].slot]
               IN /\ it.start = rule[c].start /\ it.end = rule[c].end
                  /\ IF subst(c) = {}
                     THEN it.title = rule[c].was /\ it.notes = NoNotes
                     ELSE LET last == CHOOSE i \in subst(c) : \A j \in subst(c) : rank(j) <= rank(i)
                          IN it.title = rule[c].title /\ it.notes = <<rule[c].notes, a[last].title>>
          /\ items[1].title = "Morning routine" /\ items[2].title = "Breakfast"
          /\ items[4].title = "Lunch break" /\ items[8].title = "Dinner"
          /\ items[10].title = "Wind down" /\ items[11].title = "Sleep"

\* two career goals at ranks 0 and 1 and a learning goal at rank 2: the
\* career slot names the second career goal, the learning slot is untouched
C26_Witness ==
  /\ req.op = "generateDailyPlan" /\ ~deepSeekKey
  /\ Len(goals) = 3
  /\ goals[1].category = "learning" /\ goals[1].status = "active" /\ goals[1].priority = 1
  /\ goals[2].category = "career" /\ goals[2].status = "active" /\ goals[2].priority = 2
  /\ goals[3].category = "career" /\ goals[3].status = "active" /\ goals[3].priority = 2
  /\ resp.body.items[3].notes = <<"Progress on: ", goals[3].title>>
  /\ resp.body.items[9].title = "Reading/Hobbies"

(***************************************************************************)
(* POST /monthly-planning                                                  *)
(***************************************************************************)
\* a JSON boolean
JBool(b) == [kind |-> "boolean", val |-> b]

\* String.prototype.padStart(2, '0')
padStart2(s) == IF Len(s) < 2 THEN <<"0">> \o s ELSE s

MonthlyGoal(id, title, category, progress, target) ==
  [id |-> id, title |-> title, category |-> category, progress |-> progress, target |-> target]

Milestone(id, title, date, completed, description) ==
  [id |-> id, title |-> title, date |-> date, completed |-> completed, description |-> description]

MonthlyDoc(six, one, goalList, milestoneList) ==
  [isNull |-> FALSE,
   ai_vision |-> [six_month_projection |-> six, one_year_vision |-> one],
   monthly_goals |-> [isArray |-> TRUE, list |-> goalList],
   milestones |-> [isArray |-> TRUE, list |-> milestoneList]]

NullDoc ==
  [isNull |-> TRUE,
   ai_vision |-> [six_month_projection |-> JUndefined, one_year_vision |-> JUndefined],
   monthly_goals |-> [isArray |-> FALSE, list |-> <<>>],
   milestones |-> [isArray |-> FALSE, list |-> <<>>]]

goalSchemaNoRange(g) ==
  /\ g.id.kind = "string"
  /\ g.title.kind = "string"
  /\ g.category.kind = "string" /\ g.category.val \in {"fitness", "learning", "career", "personal"}
  /\ g.progress.kind = "number"
  /\ g.target.kind = "string"

\* the element schema of monthly_goals
goalSchema(g) ==
  /\ g.id.kind = "string"
  /\ g.title.kind = "string"
  /\ g.category.kind = "string" /\ g.category.val \in {"fitness", "learning", "career", "personal"}
  /\ g.progress.kind = "number" /\ g.progress.val >= 0 /\ g.progress.val <= 100
  /\ g.target.kind = "string"

\* the element schema of milestones
milestoneSchema(m) ==
  /\ m.id.kind = "string"
  /\ m.title.kind = "string"
  /\ m.date.kind = "string"
  \* /^\d{4}-\d{2}-\d{2}$/.test(m.date)
  /\ Len(m.date.val) = 10
  /\ \A k \in {1, 2, 3, 4, 6, 7, 9, 10} : m.date.val[k] \in Digit
  /\ m.date.val[5] = "-"
  /\ m.date.val[8] = "-"
  /\ m.completed.kind = "boolean"
  /\ m.description.kind = "string"

\* monthlyPlanSchema.safeParse(parsed).success
monthlyPlanSchema(doc) ==
  /\ ~doc.isNull
  /\ doc.ai_vision.six_month_projection.kind = "string"
  /\ doc.ai_vision.one_year_vision.kind = "string"
  /\ doc.monthly_goals.isArray
  /\ \A i \in 1..Len(doc.monthly_goals.list) : goalSchema(doc.monthly_goals.list[i])
  /\ doc.milestones.isArray
  /\ \A i \in 1..Len(doc.milestones.list) : milestoneSchema(doc.milestones.list[i])

\* the outcomes of one backend call: failures, and the documents a backend
\* may answer with: null, documents without goals, documents with one goal
\* and one milestone and variations of their fields
MonthlyOutcomes ==
  LET goal(category, progress) == MonthlyGoal(JStr("1"), JStr("Run"), category, progress, JStr("10 km"))
      milestone(date, completed) == Milestone(JStr("1"), JStr("First run"), date, completed, JStr("5 km"))
      day == <<"2", "0", "2", "6", "-", "1", "1", "-", "1", "5">>
      doc(g, m) == MonthlyDoc(JStr("six"), JStr("one"), <<g>>, <<m>>)
      docs ==
        { NullDoc,
          MonthlyDoc(JStr("six"), JStr("one"), <<>>, <<>>),
          MonthlyDoc(JStr("six"), JUndefined, <<>>, <<>>),
          [MonthlyDoc(JStr("six"), JStr("one"), <<>>, <<>>) EXCEPT !.monthly_goals.isArray = FALSE] }
        \cup { doc(goal(c, p), milestone(JStr(day), JBool(FALSE))) :
                 c \in {JStr("fitness"), JStr("financial")},
                 p \in {JNum(0), JNum(100), JNum(150), JNum(-1), JStr("50")} }
        \cup { doc(goal(JStr("career"), JNum(40)), milestone(d, b)) :
                 d \in {JStr(day), JStr(<<"2", "0", "2", "6", "-", "1", "-", "5">>), JNum(20261115)},
                 b \in {JBool(TRUE), JStr("false")} }
  IN { [kind |-> k, doc |-> NullDoc] : k \in {"throw", "notok", "unparsable"} }
     \cup { [kind |-> "json", doc |-> d] : d \in docs }

NoMonthlyOutcome == [kind |-> "none", doc |-> NullDoc]

\* monthlyData = null
NoMonthlyData == [present |-> FALSE, data |-> NullDoc]

\* one attempt: the value of monthlyData after the try block
Attempt(o) ==
  IF o.kind = "json" /\ monthlyPlanSchema(o.doc)
  THEN [present |-> TRUE, data |-> o.doc]
  ELSE NoMonthlyData

Years == {2026}

\* Date.prototype.getMonth
Months == 0..11

\* `${currentDate.getFullYear()}-${String(currentDate.getMonth() + 1).padStart(2, '0')}-dd`
MilestoneDate(year, month, dd) == NumStr(year) \o <<"-">> \o padStart2(NumStr(month + 1)) \o <<"-">> \o dd

\* the data of the fallback branch
FallbackMonthlyData(year, month) ==
  MonthlyDoc(
    JStr("Based on your profile, focusing on consistent daily habits will help you achieve significant progress in your fitness, learning, and career goals. Building momentum in small, manageable steps leads to remarkable long-term results."),
    JStr("By maintaining consistent effort in your areas of interest, you'll develop expertise and achieve meaningful milestones that align with your personal and professional aspirations."),
    << MonthlyGoal(JStr("1"), JStr("Daily Exercise Routine"), JStr("fitness"), JNum(0), JStr("30 days of activity")),
       MonthlyGoal(JStr("2"), JStr("Learn New Skills"), JStr("learning"), JNum(0), JStr("Complete 2 courses")),
       MonthlyGoal(JStr("3"), JStr("Career Development"), JStr("career"), JNum(0), JStr("Advance key projects")),
       MonthlyGoal(JStr("4"), JStr("Personal Growth"), JStr("personal"), JNum(0), JStr("Develop healthy habits")) >>,
    << Milestone(JStr("1"), JStr("Complete first week of habits"), JStr(MilestoneDate(year, month, <<"0", "7">>)),
                 JBool(FALSE), JStr("Build foundation for monthly goals")),
       Milestone(JStr("2"), JStr("Mid-month check-in"), JStr(MilestoneDate(year, month, <<"1", "5">>)),
                 JBool(FALSE), JStr("Assess progress and adjust approach")),
       Milestone(JStr("3"), JStr("Complete major milestone"), JStr(MilestoneDate(year, month, <<"2", "3">>)),
                 JBool(FALSE), JStr("Achieve significant goal progress")),
       Milestone(JStr("4"), JStr("Month-end reflection"), JStr(MilestoneDate(year, month, <<"3", "0">>)),
                 JBool(FALSE), JStr("Review achievements and plan next month")) >>)

\* `monthly-${currentYear}-${currentMonth}`
MonthKey(year, month) == <<"monthly-">> \o NumStr(year) \o <<"-">> \o padStart2(NumStr(month + 1))

MonthKeys == { MonthKey(y, m) : y \in Years, m \in Months }

tryHuggingFaceAlways(monthlyData) == hfKey

\* if (!monthlyData && hfKey)
tryHuggingFace(monthlyData) == ~monthlyData.present /\ hfKey

\* the backends answer only the calls that are made: DeepSeek when its key
\* is set, Hugging Face when the second guard lets the call through
MonthlyPlanning ==
  \E year \in Years, month \in Months :
  \E oDs \in (IF profile.present /\ deepSeekKey THEN MonthlyOutcomes ELSE {NoMonthlyOutcome}) :
    LET afterDs == IF deepSeekKey THEN Attempt(oDs) ELSE NoMonthlyData
    IN \E oHf \in (IF profile.present /\ tryHuggingFace(afterDs) THEN MonthlyOutcomes ELSE {NoMonthlyOutcome}) :
         LET afterHf == IF tryHuggingFace(afterDs) THEN Attempt(oHf) ELSE afterDs
             monthlyData == IF ~afterHf.present THEN FallbackMonthlyData(year, month) ELSE afterHf.data
         IN /\ req.op = "none"
            /\ req' = [op |-> "monthly-planning", outcome |-> [ds |-> oDs, hf |-> oHf],
                       date |-> [year |-> year, month |-> month]]
            /\ IF ~profile.present
               THEN /\ resp' = [status |-> 400, body |-> [message |-> "Profile not found. Please complete your profile first."]]
                    /\ callLog' = <<>>
                    /\ writes' = 0
                    /\ store' = store
               ELSE /\ resp' = [status |-> 200,
                                body |-> [message |-> "Monthly planning data generated successfully",
                                          data |-> monthlyData, month |-> <<month, year>>]]
                    /\ callLog' = (IF deepSeekKey THEN <<"deepseek">> ELSE <<>>)
                                    \o (IF tryHuggingFace(afterDs) THEN <<"huggingface">> ELSE <<>>)
                    /\ writes' = 1
                    /\ store' = upsertDailyPlan(store, [date |-> MonthKey(year, month), timezone |-> TimeZone,
                                                        planJson |-> JSONstringify(monthlyData)])
            /\ calls' = Len(callLog')
            /\ UNCHANGED <<loop, content, profile, goals, hfKey, deepSeekKey>>

InitMonthly ==
  /\ profile \in {PlainProfile, NoProfile}
  /\ hfKey \in BOOLEAN
  /\ deepSeekKey \in BOOLEAN
  /\ goals = <<>>
  /\ \E r \in {NoRow, EarlierRow} : store = [k \in MonthKeys |-> r]
  /\ req = NoRequest
  /\ resp = NoResponse
  /\ writes = 0
  /\ calls = 0
  /\ callLog = <<>>
  /\ loop = NoLoop
  /\ content = <<>>

NextMonthly == MonthlyPlanning

SpecMonthly == InitMonthly /\ [][NextMonthly]_vars

\* C17: a monthly planning request with a profile tries DeepSeek first when
\* its key is set, tries Hugging Face only when DeepSeek is not configured
\* or its attempt failed (transport error, non-success status, unparsable
\* text or schema-invalid output), answers with the first validated plan,
\* uses the built-in fallback plan exactly when no attempt yielded a
\* validated plan, and stores the answer once under the key monthly-YYYY-MM.
C17_DeepSeekThenHuggingFaceThenFallback ==
  (req.op = "monthly-planning" /\ profile.present) =>
    LET ds == req.outcome.ds
        hf == req.outcome.hf
        good(o) == o.kind = "json" /\ monthlyPlanSchema(o.doc)
        key == MonthKey(req.date.year, req.date.month)
    IN /\ callLog \in {<<>>, <<"deepseek">>, <<"huggingface">>, <<"deepseek", "huggingface">>}
       /\ (\E i \in 1..Len(callLog) : callLog[i] = "deepseek") <=> deepSeekKey
       /\ (\E i \in 1..Len(callLog) : callLog[i] = "huggingface")
            <=> (hfKey /\ (~deepSeekKey \/ ~good(ds)))
       /\ resp.status = 200
       /\ good(ds) => resp.body.data = ds.doc
       /\ (~good(ds) /\ good(hf)) => resp.body.data = hf.doc
       /\ (resp.body.data = FallbackMonthlyData(req.date.year, req.date.month))
            <=> (~good(ds) /\ ~good(hf))
       /\ writes = 1
       /\ store[key].present
       /\ store[key].planJson = JSONstringify(resp.body.data)
       /\ \A k \in MonthKeys \ {key} : ~store[k].present \/ store[k] = EarlierRow

\* DeepSeek answered with a schema-invalid plan and Hugging Face with a valid one
C17_Witness ==
  /\ req.op = "monthly-planning"
  /\ callLog = <<"deepseek", "huggingface">>
  /\ req.outcome.ds.kind = "json"
  /\ ~monthlyPlanSchema(req.outcome.ds.doc)
  /\ req.outcome.hf.kind = "json"
  /\ resp.status = 200
  /\ resp.body.data = req.outcome.hf.doc
  /\ writes = 1

\* C18: every monthly plan that is returned and stored has both vision
\* texts, goals whose category is one of fitness, learning, career and
\* personal and whose progress is a number from 0 to 100, and milestones
\* whose date has the shape YYYY-MM-DD and whose completed flag is a boolean.
C18_MonthlyPlanWellFormed ==
  (req.op = "monthly-planning" /\ resp.status = 200) =>
    LET data == resp.body.data
        stored == JSONparse(store[MonthKey(req.date.year, req.date.month)].planJson)
        isDigit(c) == c \in {"0", "1", "2", "3", "4", "5", "6", "7", "8", "9"}
    IN /\ stored = data
       /\ data.ai_vision.six_month_projection.kind = "string"
       /\ data.ai_vision.one_year_vision.kind = "string"
       /\ \A i \in 1..Len(data.monthly_goals.list) :
            LET g == data.monthly_goals.list[i]
            IN /\ g.category \in {JStr("fitness"), JStr("learning"), JStr("career"), JStr("personal")}
               /\ g.progress.kind = "number"
               /\ g.progress.val \in 0..100
       /\ \A i \in 1..Len(data.milestones.list) :
            LET m == data.milestones.list[i]
                d == m.date.val
            IN /\ m.date.kind = "string"
               /\ Len(d) = 10
               /\ isDigit(d[1]) /\ isDigit(d[2]) /\ isDigit(d[3]) /\ isDigit(d[4])
               /\ d[5] = "-" /\ isDigit(d[6]) /\ isDigit(d[7])
               /\ d[8] = "-" /\ isDigit(d[9]) /\ isDigit(d[10])
               /\ m.completed.kind = "boolean"

\* a backend plan with progress 150 was rejected and the fallback plan stored
C18_Witness ==
  /\ req.op = "monthly-planning"
  /\ resp.status = 200
  /\ req.outcome.ds.kind = "json"
  /\ ~req.outcome.ds.doc.isNull
  /\ Len(req.outcome.ds.doc.monthly_goals.list) = 1
  /\ req.outcome.ds.doc.monthly_goals.list[1].progress = JNum(150)
  /\ req.outcome.ds.doc.monthly_goals.list[1].category = JStr("fitness")
  /\ callLog = <<"deepseek">>
  /\ resp.body.data = FallbackMonthlyData(req.date.year, req.date.month)
  /\ store[MonthKey(req.date.year, req.date.month)].planJson = JSONstringify(resp.body.data)

\* C30: every milestone date of the fallback monthly plan is a day that
\* exists in the current month, in every month of the year.
C30_FallbackMilestonesExist ==
  (/\ req.op = "monthly-planning"
   /\ resp.status = 200
   /\ resp.body.data = FallbackMonthlyData(req.date.year, req.date.month)) =>
    LET year == req.date.year
        month == req.date.month + 1
        leap == (year % 4 = 0 /\ year % 100 # 0) \/ year % 400 = 0
        lastDay == CASE month \in {4, 6, 9, 11} -> 30
                     [] month = 2 -> IF leap THEN 29 ELSE 28
                     [] OTHER -> 31
        milestones == resp.body.data.milestones.list
    IN \A i \in 1..Len(milestones) :
         LET d == milestones[i].date.val
             num(a, b) == 10 * DigitVal(d[a]) + DigitVal(d[b])
         IN /\ Len(d) = 10
            /\ 100 * num(1, 2) + num(3, 4) = year
            /\ num(6, 7) = month
            /\ num(9, 10) \in 1..lastDay

(***************************************************************************)
(* POST /goals/generate                                                    *)
(***************************************************************************)
MaxN8nGoals == 2

\* a goal of the parsed n8n output
N8nGoal(id, category, priority, progress) ==
  [id |-> id, title |-> TitleOf(id), category |-> category, priority |-> priority, progress |-> progress]

\* failAt = k > 0: the k-th pass of the upsert loop throws
N8nOutcomes ==
  { [kind |-> k, allGoals |-> <<>>, failAt |-> 0] : k \in {"throw", "notok", "notarray", "nooutput", "unparsable"} }
  \cup UNION { { [kind |-> "json", allGoals |-> l, failAt |-> k] : k \in 0..Len(l) } :
                 l \in UNION { [1..n -> { N8nGoal(id, c, p, 0) : id \in {1, 2}, c \in {"fitness", "career"},
                                                                  p \in {1, 3} }
                                          \cup { N8nGoal(2, "career", 3, 120) }] :
                              n \in 0..MaxN8nGoals } }

NoN8nOutcome == [kind |-> "none", allGoals |-> <<>>, failAt |-> 0]

\* one pass of the loop of upsertLongTermGoalsFromN8n: update the row with
\* the goal's id or insert a new row
upsertGoal(rows, goal) ==
  IF \E i \in 1..Len(rows) : rows[i].id = goal.id
  THEN [i \in 1..Len(rows) |->
          IF rows[i].id = goal.id
          THEN [rows[i] EXCEPT !.title = goal.title, !.category = goal.category,
                               !.priority = goal.priority, !.progress = goal.progress]
          ELSE rows[i]]
  ELSE Append(rows, [id |-> goal.id, title |-> goal.title, category |-> goal.category,
                     priority |-> goal.priority, status |-> "active", progress |-> goal.progress,
                     createdAt |-> Len(rows) + 1])

RECURSIVE upsertFrom(_, _, _)
upsertFrom(rows, allGoals, i) ==
  IF i > Len(allGoals) THEN rows ELSE upsertFrom(upsertGoal(rows, allGoals[i]), allGoals, i + 1)

\* place a row after the rows that come before it by (priority, createdAt)
InsertAscending(sorted, g) ==
  LET before == Cardinality({i \in 1..Len(sorted) :
                    \/ sorted[i].priority < g.priority
                    \/ sorted[i].priority = g.priority /\ sorted[i].createdAt <= g.createdAt})
  IN SubSeq(sorted, 1, before) \o <<g>> \o SubSeq(sorted, before + 1, Len(sorted))

RECURSIVE AscendingFrom(_, _, _)
AscendingFrom(rows, i, sorted) ==
  IF i > Len(rows) THEN sorted ELSE AscendingFrom(rows, i + 1, InsertAscending(sorted, rows[i]))

\* DbStorage.getLongTermGoals: orderBy(priority, createdAt)
getLongTermGoals(rows) == AscendingFrom(rows, 1, <<>>)

hasGoalsNever(existingGoals) == FALSE

\* existingGoals.length > 0
hasGoals(existingGoals) == Len(existingGoals) > 0

\* the goals the upsert loop has written when the request ends
SavedGoals(o) ==
  IF o.failAt \in 1..Len(o.allGoals) THEN SubSeq(o.allGoals, 1, o.failAt - 1) ELSE o.allGoals

GenerateGoalsResultNoProfileCheck(o) ==
  IF hasGoals(goals)
  THEN [status |-> 409, body |-> [message |-> "Long-term goals already exist for this user", goals |-> goals],
        called |-> FALSE, saved |-> <<>>]
  ELSE IF o.kind # "json" \/ o.failAt \in 1..Len(o.allGoals)
  THEN [status |-> 500, body |-> [message |-> "Failed to generate goals from n8n", goals |-> <<>>],
        called |-> TRUE, saved |-> SavedGoals(o)]
  ELSE [status |-> 200,
        body |-> [message |-> "Long-term goals generated successfully", goals |-> o.allGoals],
        called |-> TRUE, saved |-> o.allGoals]

\* the response of POST /generate, whether n8n was called and the goals it saves
GenerateGoalsResult(o) ==
  IF ~profile.present
  THEN [status |-> 400, body |-> [message |-> "Profile not found. Please complete your profile first.", goals |-> <<>>],
        called |-> FALSE, saved |-> <<>>]
  ELSE IF hasGoals(goals)
  THEN [status |-> 409, body |-> [message |-> "Long-term goals already exist for this user", goals |-> goals],
        called |-> FALSE, saved |-> <<>>]
  ELSE IF o.kind # "json" \/ o.failAt \in 1..Len(o.allGoals)
  THEN [status |-> 500, body |-> [message |-> "Failed to generate goals from n8n", goals |-> <<>>],
        called |-> TRUE, saved |-> SavedGoals(o)]
  ELSE [status |-> 200,
        body |-> [message |-> "Long-term goals generated successfully", goals |-> o.allGoals],
        called |-> TRUE, saved |-> o.allGoals]

GenerateGoals ==
  \E o \in (IF GenerateGoalsResult(NoN8nOutcome).called THEN N8nOutcomes ELSE {NoN8nOutcome}) :
    LET r == GenerateGoalsResult(o)
    IN /\ req.op = "none"
       /\ req' = [op |-> "generate-goals", outcome |-> o, date |-> <<>>]
       /\ resp' = [status |-> r.status, body |-> r.body]
       /\ calls' = IF r.called THEN 1 ELSE 0
       /\ callLog' = IF r.called THEN <<"n8n">> ELSE <<>>
       /\ writes' = Len(r.saved)
       /\ goals' = getLongTermGoals(upsertFrom(goals, r.saved, 1))
       /\ UNCHANGED <<loop, content, profile, hfKey, deepSeekKey, store>>

(***************************************************************************)
(* The three generation endpoints of one user                              *)
(***************************************************************************)
InitServer ==
  /\ profile \in {PlainProfile, NoProfile}
  /\ hfKey \in BOOLEAN
  /\ deepSeekKey \in BOOLEAN
  /\ StoredGoals(goals, 1, { [category |-> "fitness", priority |-> 1, status |-> "active"] })
  /\ \E r \in {NoRow, EarlierRow} : store = [k \in Days \cup MonthKeys |-> r]
  /\ req = NoRequest
  /\ resp = NoResponse
  /\ writes = 0
  /\ calls = 0
  /\ callLog = <<>>
  /\ loop = NoLoop
  /\ content = <<>>

NextServer == DailyTasks \/ MonthlyPlanning \/ GenerateGoals

SpecServer == InitServer /\ [][NextServer]_vars

\* C19: for a user without a profile the daily-tasks, monthly-planning and
\* goal-generation endpoints each answer 400, call no backend, write no
\* plan row and create or change no goal.
C19_NoProfileNoEffect ==
  [][~profile.present =>
       /\ req'.op \in {"daily-tasks", "monthly-planning", "generate-goals"}
       /\ resp'.status = 400
       /\ calls' = 0
       /\ callLog' = <<>>
       /\ writes' = 0
       /\ store' = store
       /\ goals' = goals]_vars

\* a goal generation request of a user without profile and without goals
C19_Witness ==
  /\ req.op = "generate-goals"
  /\ ~profile.present
  /\ goals = <<>>
  /\ resp.status = 400
  /\ calls = 0

(***************************************************************************)
(* Code fences around the generator output                                 *)
(***************************************************************************)
MaxBodyLen == 4

\* the character U+0060, which a TLA+ string cannot hold
Backtick == "U+0060"

Bodies == UNION { [1..n -> {Backtick, "a"}] : n \in 0..MaxBodyLen }

\* the JSON text {"t":"body"}
DocumentText(body) == <<"{", "\"", "t", "\"", ":", "\"">> \o body \o <<"\"", "}">>

Fence == <<Backtick, Backtick, Backtick>>

FenceJson == <<Backtick, Backtick, Backtick, "j", "s", "o", "n">>

\* the text wrapped in a fence: ```json or bare ```, the opening fence on its
\* own line or not
Wrap(text, open, newline) == open \o (IF newline THEN <<"\n">> ELSE <<>>) \o text \o <<"\n">> \o Fence

StartsAt(text, i, word) ==
  /\ i + Len(word) - 1 <= Len(text)
  /\ SubSeq(text, i, i + Len(word) - 1) = word

\* String.prototype.replace(/word\n?/g, ""), scanning from position i
RECURSIVE replaceAll(_, _, _)
replaceAll(text, i, word) ==
  IF i > Len(text) THEN <<>>
  ELSE IF StartsAt(text, i, word)
  THEN LET after == i + Len(word)
       IN replaceAll(text, IF after <= Len(text) /\ text[after] = "\n" THEN after + 1 ELSE after, word)
  ELSE <<text[i]>> \o replaceAll(text, i + 1, word)

\* if (content.includes('```')) content = content.replace(/```json\n?/g, '').replace(/```\n?/g, '')
stripFences(text) ==
  IF \E i \in 1..Len(text) : StartsAt(text, i, Fence) THEN replaceAll(replaceAll(text, 1, FenceJson), 1, Fence) ELSE text

RECURSIVE trimStart(_)
trimStart(s) == IF Len(s) > 0 /\ Head(s) \in {" ", "\n"} THEN trimStart(Tail(s)) ELSE s

RECURSIVE trimEnd(_)
trimEnd(s) == IF Len(s) > 0 /\ s[Len(s)] \in {" ", "\n"} THEN trimEnd(SubSeq(s, 1, Len(s) - 1)) ELSE s

SyntaxError == [ok |-> FALSE, t |-> <<>>]

\* JSON.parse of a text: the object {"t":"..."} between optional white
\* space, a SyntaxError for every other text
JSONparseText(text) ==
  LET core == trimEnd(trimStart(text))
      n == Len(core)
  IN IF /\ n >= 8
        /\ SubSeq(core, 1, 6) = <<"{", "\"", "t", "\"", ":", "\"">>
        /\ SubSeq(core, n - 1, n) = <<"\"", "}">>
        /\ \A k \in 7..(n - 2) : core[k] \notin {"\"", "\\", "\n"}
     THEN [ok |-> TRUE, t |-> SubSeq(core, 7, n - 2)]
     ELSE SyntaxError

\* the fence handling and the parse of the generator output
ParseContent ==
  /\ req.op = "none"
  /\ req' = [op |-> "parse", outcome |-> [kind |-> "text", text |-> content], date |-> <<>>]
  /\ content' = stripFences(content)
  /\ resp' = [status |-> 0, body |-> JSONparseText(content')]
  /\ UNCHANGED <<loop, profile, goals, hfKey, deepSeekKey, store, writes, calls, callLog>>

InitFence ==
  /\ profile = PlainProfile
  /\ hfKey = FALSE
  /\ deepSeekKey = TRUE
  /\ goals = <<>>
  /\ store = [d \in Days |-> NoRow]
  /\ req = NoRequest
  /\ resp = NoResponse
  /\ writes = 0
  /\ calls = 0
  /\ callLog = <<>>
  /\ loop = NoLoop
  /\ content \in { DocumentText(b) : b \in Bodies }
                 \cup { Wrap(DocumentText(b), open, nl) : b \in Bodies, open \in {Fence, FenceJson}, nl \in BOOLEAN }

NextFence == ParseContent

SpecFence == InitFence /\ [][NextFence]_vars

\* C20: for generator output that is a JSON document wrapped in a code
\* fence (```json or bare ```), stripping the fences and parsing gives the
\* same structure as parsing the unwrapped JSON text.
C20_StripThenParseRoundTrip ==
  req.op = "parse" =>
    \A b \in Bodies, open \in {Fence, FenceJson}, nl \in BOOLEAN :
      req.outcome.text = Wrap(DocumentText(b), open, nl) =>
        resp.body = JSONparseText(DocumentText(b))

(***************************************************************************)
(* PUT /goals/:goalId and a sequence of goal requests                      *)
(***************************************************************************)
\* a field of req.body: <<>> when undefined, <<v>> when it has the value v
Absent == <<>>

\* DbStorage.updateLongTermGoal: set the given fields on the row with the id
updateLongTermGoal(rows, goalId, body) ==
  [i \in 1..Len(rows) |->
     IF rows[i].id = goalId
     THEN [rows[i] EXCEPT
             !.progress = IF body.progress # Absent THEN body.progress[1] ELSE @,
             !.status = IF body.status # Absent THEN body.status[1] ELSE @,
             !.priority = IF body.priority # Absent THEN body.priority[1] ELSE @]
     ELSE rows[i]]

UpdateGoal ==
  \E goalId \in {1, 2, 3},
     body \in [progress : {Absent, <<50>>, <<150>>, <<-5>>}, status : {Absent, <<"paused">>},
               priority : {Absent, <<2>>}] :
    /\ req.op = "none"
    /\ req' = [op |-> "update-goal", outcome |-> [kind |-> "put", goalId |-> goalId, body |-> body], date |-> <<>>]
    /\ calls' = 0
    /\ callLog' = <<>>
    /\ IF \A key \in {"progress", "status", "priority"} : body[key] = Absent
       THEN /\ resp' = [status |-> 400, body |-> [message |-> "No valid updates provided"]]
            /\ writes' = 0
            /\ goals' = goals
       ELSE IF ~\E i \in 1..Len(goals) : goals[i].id = goalId
       THEN /\ resp' = [status |-> 404, body |-> [message |-> "Goal not found or access denied"]]
            /\ writes' = 0
            /\ goals' = goals
       ELSE /\ goals' = getLongTermGoals(updateLongTermGoal(goals, goalId, body))
            /\ writes' = 1
            /\ resp' = [status |-> 200,
                        body |-> [message |-> "Goal updated successfully",
                                  goal |-> CHOOSE g \in {goals'[i] : i \in 1..Len(goals')} : g.id = goalId]]
    /\ UNCHANGED <<loop, content, profile, hfKey, deepSeekKey, store>>

\* the response has been sent: the next request of the user can start
Deliver ==
  /\ req.op # "none"
  /\ req' = NoRequest
  /\ resp' = NoResponse
  /\ writes' = 0
  /\ calls' = 0
  /\ callLog' = <<>>
  /\ UNCHANGED <<loop, content, profile, goals, hfKey, deepSeekKey, store>>

InitGoals ==
  /\ profile \in {PlainProfile, NoProfile}
  /\ hfKey = FALSE
  /\ deepSeekKey = FALSE
  /\ goals = <<>>
  /\ store = [d \in Days |-> NoRow]
  /\ req = NoRequest
  /\ resp = NoResponse
  /\ writes = 0
  /\ calls = 0
  /\ callLog = <<>>
  /\ loop = NoLoop
  /\ content = <<>>

NextGoals == GenerateGoals \/ UpdateGoal \/ Deliver

SpecGoals == InitGoals /\ [][NextGoals]_vars

\* C21: a goal generation request of a user who already has a goal answers
\* 409, calls no backend and leaves every goal as it was; so a generation
\* request changes the goals only when there were none, and no request
\* removes a goal: of a sequence of generation requests at most one
\* creates goals.
C21_GenerateOnlyWithoutGoals ==
  [][(req.op = "none" /\ req'.op = "generate-goals") =>
       /\ Len(goals) > 0 => (resp'.status = 409 /\ calls' = 0 /\ callLog' = <<>> /\ goals' = goals)
       /\ goals' # goals => goals = <<>>
       /\ Len(goals') >= Len(goals)]_vars

\* a generation request that met existing goals
C21_Witness ==
  /\ req.op = "generate-goals"
  /\ resp.status = 409
  /\ Len(goals) > 0
  /\ calls = 0

\* C23: after any sequence of goal creations and goal updates every stored
\* goal has a progress from 0 to 100.
C23_ProgressInRange ==
  \A i \in 1..Len(goals) : goals[i].progress \in 0..100

\* C22: when the goal generation backend fails (transport error,
\* non-success status or unusable output) the endpoint answers with
\* template goals instead of an error: between one and five goals, one of
\* them a career goal, each with a category and a priority from 1 to 5.
C22_TemplateGoalsOnBackendFailure ==
  (/\ req.op = "generate-goals"
   /\ req.outcome.kind \in {"throw", "notok", "notarray", "nooutput", "unparsable"}) =>
    /\ resp.status = 200
    /\ Len(resp.body.goals) \in 1..5
    /\ \E i \in 1..Len(resp.body.goals) : resp.body.goals[i].category = "career"
    /\ \A i \in 1..Len(resp.body.goals) :
         /\ resp.body.goals[i].category \in {"fitness", "learning", "career", "personal", "financial", "health"}
         /\ resp.body.goals[i].priority \in 1..5
    /\ Len(goals) = Len(resp.body.goals)

(***************************************************************************)
(* The probing loop of the normaliser, one iteration per step              *)
(***************************************************************************)
MaxProbeTotal == 3

\* the candidates (i * step) % 1440 of the lists of at most MaxProbeTotal tasks
ProbeStarts == { (i * StepOf(n)) % MinutesPerDay : i \in 0..(MaxProbeTotal - 1), n \in 1..MaxProbeTotal }

\* the times of len successive minutes from minute from
Block(from, len) == { toStr((from + k) % MinutesPerDay) : k \in 0..(len - 1) }

\* an if in place of the while: the candidate moves on at most once
loopRunsOnce(l) == toStr(l.candidate) \in l.used /\ l.guard < 1

\* while (used.has(candidateStr) && guard < 1440)
loopRuns(l) == toStr(l.candidate) \in l.used /\ l.guard < GuardLimit

\* one evaluation of the loop condition: the body runs once or the loop ends
\* and time = candidateStr is taken
ProbeStep ==
  /\ ~loop.done
  /\ loop' = IF loopRuns(loop)
             THEN [loop EXCEPT !.candidate = (loop.candidate + 1) % MinutesPerDay, !.guard = loop.guard + 1]
             ELSE [loop EXCEPT !.done = TRUE, !.used = loop.used \cup {toStr(loop.candidate)}]
  /\ UNCHANGED <<profile, goals, hfKey, deepSeekKey, store, req, resp, writes, calls, callLog, content>>

InitProbe ==
  /\ profile = PlainProfile
  /\ hfKey = TRUE
  /\ deepSeekKey = FALSE
  /\ goals = <<>>
  /\ store = [d \in Days |-> NoRow]
  /\ req = NoRequest
  /\ resp = NoResponse
  /\ writes = 0
  /\ calls = 0
  /\ callLog = <<>>
  /\ content = <<>>
  \* used: empty, short runs of taken minutes, every minute but one, every minute
  /\ \E start \in ProbeStarts,
        used \in { Block(from, len) : from \in ProbeStarts \cup {1},
                                      len \in {0, 1, 2, MinutesPerDay - 1, MinutesPerDay} } :
       loop = [candidate |-> start, guard |-> 0, used |-> used, start |-> start, reserved |-> used, done |-> FALSE]

NextProbe == ProbeStep

\* the loop is scheduled until it ends: it runs inside one synchronous callback
SpecProbeLive == InitProbe /\ [][NextProbe]_vars /\ WF_vars(ProbeStep)

\* C25: the probing loop of one task ends, after at most 1440 iterations;
\* when all 1440 minutes are reserved it stops with the last probed value
\* as the task's time.
C25_ProbeTerminates ==
  /\ <>loop.done
  /\ [](loop.guard <= 1440)
  /\ []((loop.done /\ Cardinality(loop.reserved) = 1440) =>
          /\ loop.guard = 1440
          /\ loop.candidate = (loop.start + 1440) % 1440
          /\ toStr(loop.candidate) \in loop.used)

\* the loop ended on its guard with every minute of the day reserved
C25_Witness ==
  /\ loop.done
  /\ loop.guard = 1440
  /\ Cardinality(loop.reserved) = 1440

(***************************************************************************)
(* POST /daily-tasks/toggle                                                *)
(***************************************************************************)
MaxToggleTasks == 2

\* a stored task with and without the completed field
Task(id, completed) == [id |-> id, title |-> "t", completed |-> completed]

ToggleDates == Days \cup {<<"2026-11-07">>}

\* list.findIndex(t => String(t.id) === String(id)), 0 when there is none
findIndex(list, id) ==
  IF \E i \in 1..Len(list) : String(list[i].id) = String(id)
  THEN CHOOSE i \in 1..Len(list) :
         /\ String(list[i].id) = String(id)
         /\ \A j \in 1..(i - 1) : String(list[j].id) # String(id)
  ELSE 0

\* list[idx].completed = completed
setCompleted(t, completed) ==
  [k \in DOMAIN t \cup {"completed"} |-> IF k = "completed" THEN completed ELSE t[k]]

toggledListEveryMatch(json, id, completed) ==
  LET list == IF "daily_tasks" \in DOMAIN json THEN json.daily_tasks ELSE <<>>
  IN [i \in 1..Len(list) |->
        IF String(list[i].id) = String(id) THEN setCompleted(list[i], completed) ELSE list[i]]

\* the list after the assignment to list[idx]
toggledList(json, id, completed) ==
  LET list == IF "daily_tasks" \in DOMAIN json THEN json.daily_tasks ELSE <<>>
      idx == findIndex(list, id)
  IN [i \in 1..Len(list) |-> IF i = idx THEN setCompleted(list[i], completed) ELSE list[i]]

\* { ...json, daily_tasks: list }
withDailyTasks(json, list) ==
  [k \in DOMAIN json \cup {"daily_tasks"} |-> IF k = "daily_tasks" THEN list ELSE json[k]]

\* requests are served one after another
Toggle ==
  \* the fields of req.body; a missing date is the empty string
  \E body \in [date : ToggleDates \cup {<<>>},
               id : {JStr(<<"1">>), JStr(<<"2">>), JStr(<<"9">>), JUndefined},
               completed : {JBool(TRUE), JBool(FALSE), JStr(<<"t", "r", "u", "e">>)}] :
    /\ req.op \in {"none", "toggle"}
    /\ req' = [op |-> "toggle", outcome |-> body, date |-> body.date]
    /\ calls' = 0
    /\ callLog' = <<>>
    /\ IF body.date = <<>> \/ ~Truthy(body.id) \/ body.completed.kind # "boolean"
       THEN /\ resp' = [status |-> 400, body |-> [message |-> "date, id and completed are required"]]
            /\ writes' = 0
            /\ store' = store
       ELSE IF ~getDailyPlan(store, body.date).present
       THEN /\ resp' = [status |-> 404, body |-> [message |-> "Plan not found for this date"]]
            /\ writes' = 0
            /\ store' = store
       ELSE LET json == JSONparse(getDailyPlan(store, body.date).planJson)
                list == toggledList(json, body.id, body.completed.val)
            IN /\ store' = [store EXCEPT ![body.date].planJson = JSONstringify(withDailyTasks(json, list))]
               /\ writes' = 1
               /\ resp' = [status |-> 200, body |-> [message |-> "Task updated", daily_tasks |-> list]]
    /\ UNCHANGED <<profile, goals, hfKey, deepSeekKey, content, loop>>

InitToggle ==
  /\ profile = PlainProfile
  /\ hfKey = FALSE
  /\ deepSeekKey = FALSE
  /\ goals = <<>>
  \* the parsed planJson of the stored row: a daily task list (tasks with
  \* and without the completed field), a daily task list beside other keys,
  \* a plan without daily_tasks
  /\ \E doc \in { [daily_tasks |-> l] :
                    l \in UNION { [1..n -> { Task(id, c) : id \in {JStr(<<"1">>), JStr(<<"2">>), JNum(1)},
                                                          c \in BOOLEAN }
                                          \cup { [id |-> id, title |-> "t"] : id \in {JStr(<<"1">>), JStr(<<"2">>)} }] :
                                 n \in 0..MaxToggleTasks } }
                \cup { [daily_tasks |-> <<Task(JStr(<<"1">>), FALSE)>>, date |-> "2026-11-06", timezone |-> TimeZone],
                       [items |-> <<>>, date |-> "2026-11-06", timezone |-> TimeZone] } :
       store = [d \in ToggleDates |->
                  IF d \in Days
                  THEN [present |-> TRUE, timezone |-> TimeZone, planJson |-> JSONstringify(doc)]
                  ELSE NoRow]
  /\ req = NoRequest
  /\ resp = NoResponse
  /\ writes = 0
  /\ calls = 0
  /\ callLog = <<>>
  /\ content = <<>>
  /\ loop = NoLoop

NextToggle == Toggle

SpecToggle == InitToggle /\ [][NextToggle]_vars

\* C28: a toggle request (date, id, completed) on an existing plan gives the
\* completed flag of the task with that id the given value and changes
\* nothing else: the other tasks, the other fields of the task, the order of
\* the tasks and the other top-level keys stay; with no such task no task
\* changes; with no plan for the date the answer is 404 and nothing is
\* written; the same request repeated leaves the stored plan as it is.
C28_ToggleChangesOneFlag ==
  [][(req'.op = "toggle" /\ req'.outcome.date # <<>>
        /\ Truthy(req'.outcome.id) /\ req'.outcome.completed.kind = "boolean") =>
       LET b == req'.outcome
           id == String(b.id)
       IN IF ~store[b.date].present
          THEN resp'.status = 404 /\ writes' = 0 /\ store' = store
          ELSE LET old == JSONparse(store[b.date].planJson)
                   new == JSONparse(store'[b.date].planJson)
                   had == IF "daily_tasks" \in DOMAIN old THEN old.daily_tasks ELSE <<>>
                   has == new.daily_tasks
                   match == { i \in 1..Len(had) : String(had[i].id) = id }
               IN /\ resp'.status = 200
                  /\ \A d \in ToggleDates \ {b.date} : store'[d] = store[d]
                  /\ store'[b.date].present /\ store'[b.date].timezone = store[b.date].timezone
                  /\ DOMAIN new = DOMAIN old \cup {"daily_tasks"}
                  /\ \A k \in DOMAIN old \ {"daily_tasks"} : new[k] = old[k]
                  /\ Len(has) = Len(had)
                  /\ \A i \in 1..Len(had) :
                       IF i \in match /\ \A j \in match : i <= j
                       THEN /\ has[i].completed = b.completed.val
                            /\ DOMAIN has[i] = DOMAIN had[i] \cup {"completed"}
                            /\ \A k \in DOMAIN had[i] \ {"completed"} : has[i][k] = had[i][k]
                       ELSE has[i] = had[i]
                  /\ match = {} => has = had
                  /\ (req.op = "toggle" /\ req.outcome = b /\ resp.status = 200) => store' = store]_vars

\* the second task was toggled; the first task, stored without the flag,
\* still has none
C28_Witness ==
  /\ req.op = "toggle"
  /\ resp.status = 200
  /\ req.outcome.id = JStr(<<"2">>)
  /\ req.outcome.completed = JBool(TRUE)
  /\ Len(resp.body.daily_tasks) = 2
  /\ resp.body.daily_tasks[1].id = JStr(<<"1">>)
  /\ "completed" \notin DOMAIN resp.body.daily_tasks[1]
  /\ resp.body.daily_tasks[2].id = JStr(<<"2">>)
  /\ resp.body.daily_tasks[2].completed = TRUE

(***************************************************************************)
(* Two toggle requests in flight for one plan                              *)
(***************************************************************************)
Requests == {1, 2}

\* request 1 toggles task "1", request 2 toggles task "2"
RaceId(r) == JStr(<<DigitChar(r)>>)

\* the handler up to the end of `await storage.getDailyPlan(userId, date)`
\* and the parse of the row it returned
ReadPlan(r) ==
  /\ req[r].pc = "read"
  /\ LET existing == getDailyPlan(store, req[r].date)
     IN IF ~existing.present
        THEN /\ req' = [req EXCEPT ![r].pc = "done"]
             /\ resp' = [resp EXCEPT ![r] = [status |-> 404, body |-> [message |-> "Plan not found for this date"]]]
        ELSE /\ req' = [req EXCEPT ![r].pc = "write", ![r].json = JSONparse(existing.planJson)]
             /\ resp' = resp
  /\ UNCHANGED <<profile, goals, hfKey, deepSeekKey, store, writes, calls, callLog, content, loop>>

\* the rest of the handler: the change of the list read before, the
\* db.update and the response
WritePlan(r) ==
  /\ req[r].pc = "write"
  /\ LET list == toggledList(req[r].json, req[r].id, req[r].completed.val)
     IN /\ store' = [store EXCEPT ![req[r].date].planJson = JSONstringify(withDailyTasks(req[r].json, list))]
        /\ resp' = [resp EXCEPT ![r] = [status |-> 200, body |-> [message |-> "Task updated", daily_tasks |-> list]]]
  /\ req' = [req EXCEPT ![r].pc = "done"]
  /\ writes' = writes + 1
  /\ UNCHANGED <<profile, goals, hfKey, deepSeekKey, calls, callLog, content, loop>>

InitToggleRace ==
  /\ profile = PlainProfile
  /\ hfKey = FALSE
  /\ deepSeekKey = FALSE
  /\ goals = <<>>
  /\ \E c1, c2 \in BOOLEAN, other \in {<<>>, <<Task(JStr(<<"3">>), FALSE)>>}, present \in BOOLEAN :
       store = [d \in Days |->
                  IF present
                  THEN [present |-> TRUE, timezone |-> TimeZone,
                        planJson |-> JSONstringify([daily_tasks |->
                                       <<Task(RaceId(1), c1), Task(RaceId(2), c2)>> \o other])]
                  ELSE NoRow]
  /\ \E completed \in [Requests -> BOOLEAN], date \in Days :
       req = [r \in Requests |->
                [op |-> "toggle", pc |-> "read", date |-> date, id |-> RaceId(r),
                 completed |-> JBool(completed[r]), json |-> [daily_tasks |-> <<>>]]]
  /\ resp = [r \in Requests |-> NoResponse]
  /\ writes = 0
  /\ calls = 0
  /\ callLog = <<>>
  /\ content = <<>>
  /\ loop = NoLoop

NextToggleRace == \E r \in Requests : ReadPlan(r) \/ WritePlan(r)

SpecToggleRace == InitToggleRace /\ [][NextToggleRace]_vars

\* C29: two toggle requests for two different tasks of one plan, their read
\* and write steps interleaved in any way, both take effect: the plan
\* stored in the end has for each of the two tasks the value its request
\* asked for.
C29_BothTogglesTakeEffect ==
  (\A r \in Requests : req[r].pc = "done" /\ resp[r].status = 200) =>
    \A d \in Days :
      LET list == JSONparse(store[d].planJson).daily_tasks
      IN \A r \in Requests :
           \A i \in 1..Len(list) :
             list[i].id = req[r].id => list[i].completed = req[r].completed.val

(***************************************************************************)
(* Two upsertDailyPlan calls in flight: daily_plans as a table of rows     *)
(***************************************************************************)
RaceDates == Days \cup {MonthKey(2026, 10)}

\* db.select().from(dailyPlans).where(userId, date).limit(1): is there a row
selectPlan(table, date) == \E i \in 1..Len(table) : table[i].date = date

\* db.update(dailyPlans).set({ ...plan }).where(userId, date)
updatePlan(table, plan) ==
  [i \in 1..Len(table) |->
     IF table[i].date = plan.date
     THEN [table[i] EXCEPT !.timezone = plan.timezone, !.planJson = plan.planJson]
     ELSE table[i]]

\* upsertDailyPlan up to the end of `await this.getDailyPlan(...)`
SelectPlan(r) ==
  /\ req[r].pc = "select"
  /\ req' = [req EXCEPT ![r].pc = "write", ![r].existing = selectPlan(store, req[r].plan.date)]
  /\ UNCHANGED <<profile, goals, hfKey, deepSeekKey, store, resp, writes, calls, callLog, content, loop>>

\* the branch on existing: update or insert
WritePlanRow(r) ==
  /\ req[r].pc = "write"
  /\ store' = IF req[r].existing THEN updatePlan(store, req[r].plan) ELSE Append(store, req[r].plan)
  /\ req' = [req EXCEPT ![r].pc = "done"]
  /\ writes' = writes + 1
  /\ UNCHANGED <<profile, goals, hfKey, deepSeekKey, resp, calls, callLog, content, loop>>

InitUpsertRace ==
  /\ profile = PlainProfile
  /\ hfKey = FALSE
  /\ deepSeekKey = FALSE
  /\ goals = <<>>
  /\ \E date \in RaceDates :
       /\ store \in {<<>>, <<[date |-> date, timezone |-> TimeZone,
                               planJson |-> JSONstringify([daily_tasks |-> <<>>])]>>}
       /\ \E json \in [Requests -> { JSONstringify([daily_tasks |-> <<Task(JStr(<<"1">>), c)>>]) : c \in BOOLEAN }] :
            req = [r \in Requests |->
                     [op |-> "upsertDailyPlan", pc |-> "select", existing |-> FALSE,
                      plan |-> [date |-> date, timezone |-> TimeZone, planJson |-> json[r]]]]
  /\ resp = [r \in Requests |-> NoResponse]
  /\ writes = 0
  /\ calls = 0
  /\ callLog = <<>>
  /\ content = <<>>
  /\ loop = NoLoop

NextUpsertRace == \E r \in Requests : SelectPlan(r) \/ WritePlanRow(r)

SpecUpsertRace == InitUpsertRace /\ [][NextUpsertRace]_vars

\* C27: after any interleaving of concurrent upsertDailyPlan calls for one
\* user and one date or period key the table holds at most one row for the
\* key, and the row holds the complete plan of one of the requests.
C27_OneRowPerKey ==
  (\A r \in Requests : req[r].pc = "done") =>
    \A date \in RaceDates :
      LET rows == { i \in 1..Len(store) : store[i].date = date }
      IN /\ Cardinality(rows) <= 1
         /\ \A i \in rows : \E r \in Requests : store[i] = req[r].plan

====
